---- MODULE Spec2Model ----
(***************************************************************************)
(* A model of the ICE archive codec of pyzamboni (src/zamboni).  Byte      *)
(* strings are sequences of integers 0..255; text is ASCII, so that        *)
(* str.encode() yields one byte per character with the same code.  A call  *)
(* that can raise returns a record [ok |-> FALSE, err |-> <exception>];    *)
(* a call that returns normally yields [ok |-> TRUE, val |-> <value>].     *)
(***************************************************************************)
EXTENDS Integers, Sequences, FiniteSets, TLC

VARIABLES
    pc,      \* position of the caller: which operation has completed
    args,    \* inputs of the operation under study
    ret,     \* what the operation returned (or the exception it raised)
    ice,     \* the IceFile object: meta, group headers, the two file lists
    stream,  \* the bytes written to the sink so far
    loaded   \* what IceFile.read produced from the sink's bytes

vars == <<pc, args, ret, ice, stream, loaded>>

None == [none |-> TRUE]

Ok(v) == [ok |-> TRUE, val |-> v]

Raise(e) == [ok |-> FALSE, err |-> e]

\* F(e), with e evaluated once and handed to F as a value.
Bind(e, F(_)) == CHOOSE r \in { F(v) : v \in { e } } : TRUE

(***************************************************************************)
(* Bounds of the model.                                                    *)
(***************************************************************************)
MaxStem == 12

MaxDataLen == 20

MaxFloatLen == 2

MaxBfLen == 17

MaxSeed == 3

MaxFiles == 1

MaxGroupFiles == 2

MaxParts == 2

MaxVersion == 5

MaxPrsLen == 4

MaxOut == 4

MaxCopy == 5

(***************************************************************************)
(* Byte-string helpers.                                                    *)
(***************************************************************************)
Byte == 0..255

Zeros(n) == [i \in 1..n |-> 0]

Rep(b, n) == [i \in 1..n |-> b]

Min(a, b) == IF a < b THEN a ELSE b

Max(a, b) == IF a < b THEN b ELSE a

\* data[a:b] of Python for 0 <= a: the bytes at offsets a .. b-1 that exist.
Slice(data, a, b) == SubSeq(data, Min(a, Len(data)) + 1, Min(b, Len(data)))

\* bytes.ljust(width, b"\0"): pad on the right, never truncate.
ljust0(data, width) == IF Len(data) >= width THEN data ELSE data \o Zeros(width - Len(data))

\* struct.pack("<I", v)
PackU32(v) == << v % 256, (v \div 256) % 256, (v \div 65536) % 256, (v \div 16777216) % 256 >>

\* struct.unpack("<I", data[off:off+4])[0], off counted from 0
UnpackU32(data, off) ==
    data[off + 1] + 256 * data[off + 2] + 65536 * data[off + 3] + 16777216 * data[off + 4]

\* struct.pack("4s", data): truncated or NUL-padded to 4 bytes
Pack4s(data) == SubSeq(ljust0(data, 4), 1, 4)

\* a ^ b of Python on non-negative integers
RECURSIVE Xor(_, _)
Xor(a, b) ==
    IF a = 0 THEN b
    ELSE IF b = 0 THEN a
    ELSE ((a + b) % 2) + 2 * Xor(a \div 2, b \div 2)

RECURSIVE Pow2(_)
Pow2(n) == IF n = 0 THEN 1 ELSE 2 * Pow2(n - 1)

\* Unsigned 32-bit values can exceed the checker's integers, so a u32 that
\* carries key or checksum bits is kept as its 4 little-endian bytes.
\* Bit i of the number whose little-endian bytes are le.
BitOf(le, i) == IF i >= 8 * Len(le) THEN 0 ELSE (le[(i \div 8) + 1] \div Pow2(i % 8)) % 2

\* (n >> shift) & 0xFF for the number n whose little-endian bytes are le.
ShrLowByte(le, shift) ==
    BitOf(le, shift) + 2 * BitOf(le, shift + 1) + 4 * BitOf(le, shift + 2)
        + 8 * BitOf(le, shift + 3) + 16 * BitOf(le, shift + 4) + 32 * BitOf(le, shift + 5)
        + 64 * BitOf(le, shift + 6) + 128 * BitOf(le, shift + 7)

(***************************************************************************)
(* util.py                                                                 *)
(***************************************************************************)
NIFL == << 78, 73, 70, 76 >>

is_nifl(data) == Len(data) >= 4 /\ SubSeq(data, 1, 4) = NIFL

\* A mutation of the predicate: the two range tests joined by "or".
HeaderlessCharOr(char) == (char < 32 \/ char > 64) \/ (char < 91 \/ char > 126)

\* The predicate on the first byte, as the source writes it.
HeaderlessChar(char) == (char < 32 \/ char > 64) /\ (char < 91 \/ char > 126)

\* data[0] raises IndexError on empty data.
is_headerless_file(data) ==
    IF Len(data) = 0 THEN Raise("IndexError") ELSE Ok(HeaderlessChar(data[1]))

pad_to_multiple(value, multiple) ==
    LET remainder == value % multiple
    IN  IF remainder = 0 THEN value ELSE value + multiple - remainder

(***************************************************************************)
(* datafile.py: DataFileHeader                                             *)
(***************************************************************************)
\* DataFileHeader.FORMAT.size: struct "<4sIIIII40x"
FORMAT_size == 4 + 5 * 4 + 40

Dot == 46

\* The offset (from 1) of the last "." of name, 0 when there is none.
RFindDot(name) ==
    LET S == { i \in 1..Len(name) : name[i] = Dot }
    IN  IF S = {} THEN 0 ELSE CHOOSE i \in S : \A j \in S : j <= i

\* pathlib: Path(filename).suffix for a name without separators: the last
\* "."-component, unless the only dot leads the name or ends it.
PathSuffix(name) ==
    LET i == RFindDot(name)
    IN  IF i > 1 /\ i < Len(name) THEN SubSeq(name, i, Len(name)) ELSE << >>

\* str.removeprefix(".")
RemoveDot(s) == IF Len(s) > 0 /\ s[1] = Dot THEN Tail(s) ELSE s

\* A mutation of for_file: the record size is not padded.
for_file_unpadded(filename, size) ==
    LET filename_bytes == filename \o << 0 >>
        header_size == pad_to_multiple(FORMAT_size + Len(filename_bytes), 16)
    IN  [ extension      |-> ljust0(RemoveDot(PathSuffix(filename)), 4),
          file_size      |-> size + header_size,
          data_size      |-> size,
          header_size    |-> header_size,
          filename_size  |-> Len(filename_bytes),
          field_0x14     |-> 1,
          filename_bytes |-> filename_bytes ]

for_file(filename, size) ==
    LET extension == ljust0(RemoveDot(PathSuffix(filename)), 4)
        filename_bytes == filename \o << 0 >>
        header_size == pad_to_multiple(FORMAT_size + Len(filename_bytes), 16)
        file_size == pad_to_multiple(size + header_size, 16)
    IN  [ extension      |-> extension,
          file_size      |-> file_size,
          data_size      |-> size,
          header_size    |-> header_size,
          filename_size  |-> Len(filename_bytes),
          field_0x14     |-> 1,
          filename_bytes |-> filename_bytes ]

pad_size(header) == header.file_size - header.header_size - header.data_size

(***************************************************************************)
(* File names of the model: a stem of n letters "a" and an extension.     *)
(***************************************************************************)
Exts ==
    { << >>,                                   \* no extension
      << 46, 98, 105, 110 >>,                  \* ".bin"
      << 46, 66 >>,                            \* ".B"
      << 46, 116, 101, 120, 116, 117, 114, 101 >>,  \* ".texture"
      << 46 >> }                               \* a trailing dot

Names == { Rep(97, n) \o e : n \in 0..MaxStem, e \in Exts }

(***************************************************************************)
(* SpecHeader: DataFileHeader.for_file applied to a name and a size.       *)
(***************************************************************************)
InitHeader ==
    /\ pc = "start"
    /\ args \in [ filename : Names, size : 0..MaxDataLen ]
    /\ ret = None
    /\ ice = None
    /\ stream = << >>
    /\ loaded = None

ForFile ==
    /\ pc = "start"
    /\ ret' = for_file(args.filename, args.size)
    /\ pc' = "for_file"
    /\ UNCHANGED << args, ice, stream, loaded >>

NextHeader == ForFile

SpecHeader == InitHeader /\ [][NextHeader]_vars

\* C8: every header built by for_file has header_size and file_size
\* multiples of 16 and pad_size = file_size - header_size - data_size >= 0.
HeaderSizeAlignment ==
    pc = "for_file" =>
        /\ ret.header_size % 16 = 0
        /\ ret.file_size % 16 = 0
        /\ pad_size(ret) >= 0
        /\ ret.data_size = args.size

\* A header whose name and payload both needed padding.
HeaderSizeAlignmentWitness ==
    /\ pc = "for_file"
    /\ (FORMAT_size + ret.filename_size) % 16 # 0
    /\ pad_size(ret) > 0
    /\ ret.header_size > 80

(***************************************************************************)
(* SpecHeaderless: is_headerless_file applied to a payload.                *)
(***************************************************************************)
InitHeaderless ==
    /\ pc = "start"
    /\ args \in { [ data |-> d ] : d \in { << >> } \cup { << c >> : c \in Byte }
                                          \cup { << c, 0 >> : c \in Byte } }
    /\ ret = None
    /\ ice = None
    /\ stream = << >>
    /\ loaded = None

IsHeaderless ==
    /\ pc = "start"
    /\ ret' = is_headerless_file(args.data)
    /\ pc' = "is_headerless_file"
    /\ UNCHANGED << args, ice, stream, loaded >>

NextHeaderless == IsHeaderless

SpecHeaderless == InitHeaderless /\ [][NextHeaderless]_vars

floatage_byte_zero_only(b, xor_byte) == IF b # 0 THEN Xor(b, xor_byte) ELSE b

\* One byte of floatage_decrypt_block: b ^ xor_byte if b and b != xor_byte else b
floatage_byte(b, xor_byte) == IF b # 0 /\ b # xor_byte THEN Xor(b, xor_byte) ELSE b

\* unpack_from("<I", key) raises struct.error on a key shorter than 4 bytes.
floatage_decrypt_block(data, key, shift) ==
    IF Len(key) < 4 THEN Raise("struct.error")
    ELSE LET key_uint == SubSeq(key, 1, 4)
             xor_byte == Xor(ShrLowByte(key_uint, shift), ShrLowByte(key_uint, 0))
         IN  Ok([ i \in 1..Len(data) |-> floatage_byte(data[i], xor_byte) ])

(***************************************************************************)
(* SpecFloatage: the floatage cipher applied once and then once more to    *)
(* its own output, with the same key and shift.                            *)
(***************************************************************************)
FloatBytes == { 0, 90, 165, 255 }

FloatKeys == { << a, b, c, d >> : a \in { 0, 90, 255 }, b \in { 0, 90 }, c \in { 0, 90, 255 }, d \in { 0, 165 } }

FloatShifts == { 0, 1, 8, 16, 24, 31, 32 }

RECURSIVE SeqsUpTo(_, _)
SeqsUpTo(S, n) ==
    IF n = 0 THEN { << >> }
    ELSE LET shorter == SeqsUpTo(S, n - 1)
         IN  shorter \cup { Append(s, x) : s \in { t \in shorter : Len(t) = n - 1 }, x \in S }

InitFloatage ==
    /\ pc = "start"
    /\ args \in [ data : SeqsUpTo(FloatBytes, MaxFloatLen), key : FloatKeys, shift : FloatShifts ]
    /\ ret = None
    /\ ice = None
    /\ stream = << >>
    /\ loaded = None

FloatageOnce ==
    /\ pc = "start"
    /\ ret' = floatage_decrypt_block(args.data, args.key, args.shift)
    /\ pc' = "floatage"
    /\ UNCHANGED << args, ice, stream, loaded >>

FloatageTwice ==
    /\ pc = "floatage"
    /\ ret.ok
    /\ ret' = [ once |-> ret.val,
                twice |-> floatage_decrypt_block(ret.val, args.key, args.shift) ]
    /\ pc' = "floatage_twice"
    /\ UNCHANGED << args, ice, stream, loaded >>

NextFloatage == FloatageOnce \/ FloatageTwice

SpecFloatage == InitFloatage /\ [][NextFloatage]_vars

\* The key as a number and the mask of the cipher, as the claim gives them.
ClaimXorByte == Xor(ShrLowByte(SubSeq(args.key, 1, 4), args.shift), args.key[1])

\* C6: applying floatage twice with the same key and shift returns the
\* input; per byte, 0 and xor_byte map to themselves and every other byte b
\* maps to b XOR xor_byte, which is neither 0 nor xor_byte.
FloatageInvolution ==
    /\ pc = "floatage" =>
          /\ ret.ok
          /\ Len(ret.val) = Len(args.data)
          /\ \A i \in 1..Len(args.data) :
                LET b == args.data[i]
                    o == ret.val[i]
                IN  IF b = 0 \/ b = ClaimXorByte
                    THEN o = b
                    ELSE o = Xor(b, ClaimXorByte) /\ o # 0 /\ o # ClaimXorByte
    /\ pc = "floatage_twice" => (ret.twice.ok /\ ret.twice.val = args.data)

\* Two applications where the first one changed a byte and kept another.
FloatageInvolutionWitness ==
    /\ pc = "floatage_twice"
    /\ ret.twice.ok
    /\ \E i, j \in 1..Len(args.data) :
          /\ ret.once[i] # args.data[i]
          /\ ret.once[j] = args.data[j] /\ args.data[j] # 0

(***************************************************************************)
(* encrpytion.py: the Blowfish wrapper.  The block cipher is an oracle: a  *)
(* keyed permutation of 8-byte blocks, here a rotation of the block's      *)
(* bytes with a key- and position-dependent addition.                      *)
(***************************************************************************)
block_size == 8

KeyAt(key, i) == key[((i - 1) % Len(key)) + 1]

BlockEncrypt(block, key) ==
    [ i \in 1..block_size |-> (block[((i + 2) % block_size) + 1] + KeyAt(key, i) + i) % 256 ]

BlockDecrypt(block, key) ==
    [ j \in 1..block_size |->
        LET i == ((j + 4) % block_size) + 1
        IN  (block[i] - KeyAt(key, i) - i) % 256 ]

\* Blowfish.new(key, MODE_ECB) accepts keys of 4 to 56 bytes.
KeyAccepted(key) == Len(key) >= 4 /\ Len(key) <= 56

RECURSIVE EcbDecrypt(_, _)
EcbDecrypt(data, key) ==
    IF Len(data) = 0 THEN << >>
    ELSE BlockDecrypt(SubSeq(data, 1, block_size), key)
            \o EcbDecrypt(SubSeq(data, block_size + 1, Len(data)), key)

RECURSIVE EcbEncrypt(_, _)
EcbEncrypt(data, key) ==
    IF Len(data) = 0 THEN << >>
    ELSE BlockEncrypt(SubSeq(data, 1, block_size), key)
            \o EcbEncrypt(SubSeq(data, block_size + 1, Len(data)), key)

\* Every little-endian u32 of data repacked big-endian.
endian_swap(data) ==
    [ i \in 1..Len(data) |-> data[4 * ((i - 1) \div 4) + 4 - ((i - 1) % 4)] ]

\* A mutation of blowfish_decrypt: the byte order is not swapped back.
blowfish_decrypt_one_swap(data, key) ==
    LET dlen == Len(data)
        split == dlen - (dlen % block_size)
    IN  IF ~KeyAccepted(key) THEN Raise("ValueError")
        ELSE Ok(EcbDecrypt(endian_swap(Slice(data, 0, split)), key) \o Slice(data, split, dlen))

blowfish_decrypt(data, key) ==
    LET dlen == Len(data)
        split == dlen - (dlen % block_size)
        blocks == Slice(data, 0, split)
        remainder == Slice(data, split, dlen)
    IN  IF ~KeyAccepted(key) THEN Raise("ValueError")
        ELSE Ok(endian_swap(EcbDecrypt(endian_swap(blocks), key)) \o remainder)

\* The mirror of blowfish_decrypt.
blowfish_encrypt(data, key) ==
    LET dlen == Len(data)
        split == dlen - (dlen % block_size)
        blocks == Slice(data, 0, split)
        remainder == Slice(data, split, dlen)
    IN  IF ~KeyAccepted(key) THEN Raise("ValueError")
        ELSE Ok(endian_swap(EcbEncrypt(endian_swap(blocks), key)) \o remainder)

(***************************************************************************)
(* SpecBlowfish: a byte string encrypted and then decrypted by the         *)
(* wrapper under one key.                                                  *)
(***************************************************************************)
BfData == { [ i \in 1..n |-> (seed * i + i * i + 7 * seed) % 256 ] : n \in 0..MaxBfLen, seed \in 0..MaxSeed }

BfKeys == { << 1, 2, 3, 4 >>, << 255, 0, 128, 7 >>, << 9, 8, 7, 6, 5 >> }

InitBlowfish ==
    /\ pc = "start"
    /\ args \in [ data : BfData, key : BfKeys ]
    /\ ret = None
    /\ ice = None
    /\ stream = << >>
    /\ loaded = None

BfEncrypt ==
    /\ pc = "start"
    /\ ret' = [ enc |-> blowfish_encrypt(args.data, args.key) ]
    /\ pc' = "blowfish_encrypt"
    /\ UNCHANGED << args, ice, stream, loaded >>

BfDecrypt ==
    /\ pc = "blowfish_encrypt"
    /\ ret.enc.ok
    /\ ret' = [ enc |-> ret.enc, dec |-> blowfish_decrypt(ret.enc.val, args.key) ]
    /\ pc' = "blowfish_decrypt"
    /\ UNCHANGED << args, ice, stream, loaded >>

NextBlowfish == BfEncrypt \/ BfDecrypt

SpecBlowfish == InitBlowfish /\ [][NextBlowfish]_vars

\* C7: the wrapper processes the first len - (len mod 8) bytes block by
\* block, returns the trailing len mod 8 bytes unchanged, keeps the length,
\* and decrypting what was encrypted under the same key returns the input.
BlowfishWrapRoundTrip ==
    pc = "blowfish_decrypt" =>
        LET x == args.data
            e == ret.enc.val
            split == Len(x) - (Len(x) % 8)
        IN  /\ ret.dec.ok
            /\ Len(e) = Len(x)
            /\ Len(ret.dec.val) = Len(e)
            /\ SubSeq(e, split + 1, Len(x)) = SubSeq(x, split + 1, Len(x))
            /\ SubSeq(ret.dec.val, split + 1, Len(x)) = SubSeq(e, split + 1, Len(x))
            /\ \A j \in 0..((split \div 8) - 1) :
                  SubSeq(ret.dec.val, 8 * j + 1, 8 * j + 8)
                     = endian_swap(BlockDecrypt(endian_swap(SubSeq(e, 8 * j + 1, 8 * j + 8)), args.key))
            /\ ret.dec.val = x

\* A string of two blocks and a tail, whose head the cipher changed.
BlowfishWrapRoundTripWitness ==
    /\ pc = "blowfish_decrypt"
    /\ Len(args.data) > 16
    /\ Len(args.data) % 8 # 0
    /\ ret.dec.ok
    /\ SubSeq(ret.enc.val, 1, 16) # SubSeq(args.data, 1, 16)

(***************************************************************************)
(* crc: CRC-32 (IEEE 802.3, reflected, seed and final XOR 0xFFFFFFFF) over *)
(* the concatenation of its arguments.  A checksum is kept as the 4 bytes  *)
(* struct.pack("<I", crc) gives.                                           *)
(***************************************************************************)
XorBytes(a, b) == [ i \in 1..Len(a) |-> Xor(a[i], b[i]) ]

CrcPoly == << 32, 131, 184, 237 >>

CrcShr1(c) ==
    << (c[1] \div 2) + 128 * (c[2] % 2), (c[2] \div 2) + 128 * (c[3] % 2),
       (c[3] \div 2) + 128 * (c[4] % 2), c[4] \div 2 >>

CrcRound(c) == IF c[1] % 2 = 1 THEN XorBytes(CrcShr1(c), CrcPoly) ELSE CrcShr1(c)

CrcTable ==
    [ n \in 0..255 |->
        CrcRound(CrcRound(CrcRound(CrcRound(CrcRound(CrcRound(CrcRound(CrcRound(<< n, 0, 0, 0 >>)))))))) ]

CrcStep(c, b) ==
    LET t == CrcTable[Xor(c[1], b)]
    IN  << Xor(t[1], c[2]), Xor(t[2], c[3]), Xor(t[3], c[4]), t[4] >>

\* The register after the bytes data[lo..hi], by halving the range.
RECURSIVE CrcRange(_, _, _, _)
CrcRange(c, data, lo, hi) ==
    IF lo > hi THEN c
    ELSE IF lo = hi THEN CrcStep(c, data[lo])
    ELSE LET mid == (lo + hi) \div 2
             left == CrcRange(c, data, lo, mid)
         IN  IF Len(left) = 4 THEN CrcRange(left, data, mid + 1, hi) ELSE left

crc32(data) ==
    XorBytes(CrcRange(<< 255, 255, 255, 255 >>, data, 1, Len(data)), << 255, 255, 255, 255 >>)

(***************************************************************************)
(* ooz and prs: the codecs group.py calls.  Kraken is an oracle: a stream  *)
(* of a two-byte block header and the stored bytes.  The PRS encoder emits *)
(* literals only and the terminating (0, 0) long reference.                *)
(***************************************************************************)
KrakenHeader == << 204, 6 >>

kraken_compress(data, level) == KrakenHeader \o data

kraken_decompress(data, out_size) ==
    IF Len(data) >= 2 /\ SubSeq(data, 1, 2) = KrakenHeader /\ Len(data) - 2 >= out_size
    THEN Ok(SubSeq(data, 3, 2 + out_size))
    ELSE Raise("DecompressionFailed")

RECURSIVE prs_compress(_)
prs_compress(data) ==
    LET r == Len(data)
    IN  IF r >= 8 THEN << 255 >> \o SubSeq(data, 1, 8) \o prs_compress(SubSeq(data, 9, r))
        ELSE IF r <= 6 THEN << (Pow2(r) - 1) + Pow2(r + 1) >> \o data \o << 0, 0 >>
        ELSE << 127 >> \o data \o << 1, 0, 0 >>

(***************************************************************************)
(* compression.py: decompress_prs                                          *)
(***************************************************************************)
\* seq[a:b] of Python, negative indices counted from the end.
PySlice(seq, a, b) ==
    LET n == Len(seq)
        lo == IF a < 0 THEN Max(a + n, 0) ELSE Min(a, n)
        hi == IF b < 0 THEN Max(b + n, 0) ELSE Min(b, n)
    IN  SubSeq(seq, lo + 1, hi)

\* The decoder's registers: the input offset, the output so far, the control
\* byte and the number of control bits left in it.
PrsStart == [ pos |-> 0, out |-> << >>, ctrl_byte |-> 0, ctrl_byte_counter |-> 1 ]

\* read_byte: the next input byte, or StopIteration when the input is used up.
read_byte(data, st) ==
    IF st.pos < Len(data)
    THEN [ ok |-> TRUE, byte |-> data[st.pos + 1], st |-> [ st EXCEPT !.pos = @ + 1 ] ]
    ELSE [ ok |-> FALSE, err |-> "StopIteration" ]

\* get_ctrl_bit: in_stream.read(1)[0] raises IndexError when the input is used up.
get_ctrl_bit(data, st) ==
    IF st.ctrl_byte_counter - 1 = 0
    THEN IF st.pos < Len(data)
         THEN [ ok |-> TRUE, flag |-> data[st.pos + 1] % 2 = 1,
                st |-> [ st EXCEPT !.pos = @ + 1, !.ctrl_byte = data[st.pos + 1] \div 2,
                                   !.ctrl_byte_counter = 8 ] ]
         ELSE [ ok |-> FALSE, err |-> "IndexError" ]
    ELSE [ ok |-> TRUE, flag |-> st.ctrl_byte % 2 = 1,
           st |-> [ st EXCEPT !.ctrl_byte = @ \div 2, !.ctrl_byte_counter = @ - 1 ] ]

\* control_size = min(control_size, out_size - len(output)); the slice is taken
\* from the output as it stands and then appended.
PrsCopy(st, out_size, control_offset, size) ==
    LET control_size == Min(size, out_size - Len(st.out))
        load_index == Len(st.out) + control_offset
    IN  [ st EXCEPT !.out = @ \o PySlice(@, load_index, load_index + control_size) ]

\* The decoder between two steps: running at the head of the outer loop or
\* inside the literal loop, or finished with the value or exception of the call.
PrsCont(st, inner) == [ done |-> FALSE, st |-> st, inner |-> inner ]

\* StopIteration and break return the output.
PrsReturn(st) == [ done |-> TRUE, result |-> Ok(st.out) ]

\* Any other exception leaves the function.
PrsRaise(err) == [ done |-> TRUE, result |-> Raise(err) ]

\* One control decision: the test of `while len(output) < out_size` when the
\* literal loop is not running, then either one literal of
\* `while get_ctrl_bit(): output.append(read_byte())` or one reference.
PrsStep(data, out_size, c) ==
    IF c.done THEN c
    ELSE IF ~c.inner /\ Len(c.st.out) >= out_size THEN PrsReturn(c.st)
    ELSE
    LET g == get_ctrl_bit(data, c.st)
    IN  IF ~g.ok THEN PrsRaise(g.err)
        ELSE IF g.flag
        THEN LET r == read_byte(data, g.st)
             IN  IF ~r.ok THEN PrsReturn(g.st)
                 ELSE PrsCont([ r.st EXCEPT !.out = Append(@, r.byte) ], TRUE)
        ELSE LET k == get_ctrl_bit(data, g.st)
             IN  IF ~k.ok THEN PrsRaise(k.err)
                 ELSE IF k.flag
                 THEN \* long reference
                      IF Len(k.st.out) >= out_size THEN PrsReturn(k.st)
                      ELSE LET d0 == read_byte(data, k.st)
                           IN  IF ~d0.ok THEN PrsReturn(k.st)
                               ELSE LET d1 == read_byte(data, d0.st)
                                    IN  IF ~d1.ok THEN PrsReturn(d0.st)
                                        ELSE IF d0.byte = 0 /\ d1.byte = 0 THEN PrsReturn(d1.st)
                                        ELSE LET control_offset == d1.byte * 32 + (d0.byte \div 8) - 8192
                                                 size == d0.byte % 8
                                             IN  IF size # 0
                                                 THEN PrsCont(PrsCopy(d1.st, out_size, control_offset, size + 2),
                                                              FALSE)
                                                 ELSE LET e == read_byte(data, d1.st)
                                                      IN  IF ~e.ok THEN PrsReturn(d1.st)
                                                          ELSE PrsCont(PrsCopy(e.st, out_size, control_offset,
                                                                               e.byte + 10), FALSE)
                 ELSE \* short reference
                      LET b1 == get_ctrl_bit(data, k.st)
                      IN  IF ~b1.ok THEN PrsRaise(b1.err)
                          ELSE LET b2 == get_ctrl_bit(data, b1.st)
                               IN  IF ~b2.ok THEN PrsRaise(b2.err)
                                   ELSE LET o == read_byte(data, b2.st)
                                            size == 2 + (IF b1.flag THEN 2 ELSE 0) + (IF b2.flag THEN 1 ELSE 0)
                                        IN  IF ~o.ok THEN PrsReturn(b2.st)
                                            ELSE PrsCont(PrsCopy(o.st, out_size, o.byte - 256, size), FALSE)

\* At most n steps from c, stopping at the first finished one.
RECURSIVE PrsRun(_, _, _, _)
PrsRun(data, out_size, n, c) ==
    IF c.done THEN c
    ELSE IF n <= 1 THEN PrsStep(data, out_size, c)
    ELSE Bind(PrsRun(data, out_size, n \div 2, c),
              LAMBDA half : IF half.done THEN half ELSE PrsRun(data, out_size, n - (n \div 2), half))

\* Every step that does not finish consumes a control bit, and the input
\* holds at most 8 * len(data) of them: the run below always finishes.
decompress_prs(data, out_size) ==
    Bind(data, LAMBDA in_stream :
        PrsRun(in_stream, out_size, 8 * Len(in_stream) + 9, PrsCont(PrsStart, FALSE)).result)

\* prs.decompress of the extension module: the decoder of compression.py.
prs_decompress(data, out_size) == decompress_prs(data, out_size)

(***************************************************************************)
(* Arithmetic on numbers beyond 31 bits, kept as little-endian bytes.      *)
(***************************************************************************)
\* The little-endian bytes of the number whose base-256 columns are cols
\* (a column may exceed 255 or be negative: carries and borrows move up).
RECURSIVE CarryNorm(_, _, _)
CarryNorm(cols, i, carry) ==
    IF i > Len(cols)
    THEN IF carry = 0 THEN << >> ELSE << carry % 256 >> \o CarryNorm(cols, i, carry \div 256)
    ELSE LET v == cols[i] + carry
         IN  << v % 256 >> \o CarryNorm(cols, i + 1, v \div 256)

ColAt(le, i) == IF i >= 1 /\ i <= Len(le) THEN le[i] ELSE 0

BigAdd(a, b) == CarryNorm([ i \in 1..Max(Len(a), Len(b)) |-> ColAt(a, i) + ColAt(b, i) ], 1, 0)

\* a - b for a >= b
BigSub(a, b) == CarryNorm([ i \in 1..Max(Len(a), Len(b)) |-> ColAt(a, i) - ColAt(b, i) ], 1, 0)

RECURSIVE ColSum(_, _, _, _)
ColSum(a, b, k, i) ==
    IF i > Len(a) THEN 0 ELSE ColAt(a, i) * ColAt(b, k - i + 1) + ColSum(a, b, k, i + 1)

BigMul(a, b) == CarryNorm([ k \in 1..(Len(a) + Len(b)) |-> ColSum(a, b, k, 1) ], 1, 0)

\* n >> 8 * bytes
BigShrBytes(le, bytes) == SubSeq(le, bytes + 1, Len(le))

\* n >> 1
BigShr1(le) == [ i \in 1..Len(le) |-> (le[i] \div 2) + 128 * (ColAt(le, i + 1) % 2) ]

\* The value of a number known to be small.
RECURSIVE ToInt(_)
ToInt(le) == IF Len(le) = 0 THEN 0 ELSE le[1] + 256 * ToInt(Tail(le))

\* The low 32 bits of an integer, two's complement: ctypes.c_uint32(v).value
\* as little-endian bytes.
U32Bytes(v) == << v % 256, (v \div 256) % 256, (v \div 65536) % 256, (v \div 16777216) % 256 >>

\* The first 4 bytes of a number's little-endian bytes, zero-extended.
Low32(le) == [ i \in 1..4 |-> ColAt(le, i) ]

(***************************************************************************)
(* encrpytion.py: the key schedule.  Every key is a u32 kept as its 4      *)
(* little-endian bytes, which is also what pack("<I", key) yields.  XOR    *)
(* with a negative constant followed by int32_to_uint32 is the XOR of the  *)
(* 32-bit two's complement patterns.                                       *)
(***************************************************************************)
\* ((keys[idx] << shift1) | (keys[idx] >> shift2)) & 0xFF, shift1 + shift2 = 8
get_byte(keys, idx, shift1, shift2) ==
    ((keys[idx + 1] * Pow2(shift1)) % 256) + (keys[idx + 1] \div Pow2(shift2))

\* keys[idx] raises IndexError beyond the blob.
get_key(keys, temp_key) ==
    LET num1 == (temp_key[1] + 93) % 256
        num2 == (temp_key[2] + 63) % 256
        num3 == (temp_key[3] + 69) % 256
        num4 == (temp_key[4] - 58) % 256
    IN  IF Max(Max(num1, num2), Max(num3, num4)) >= Len(keys) THEN Raise("IndexError")
        ELSE Ok(<< get_byte(keys, num3, 5, 3), get_byte(keys, num1, 5, 3),
                   get_byte(keys, num4, 6, 2), get_byte(keys, num2, 7, 1) >>)

\* for _ in range(n): temp_key1 = _get_key(keys, temp_key1)
RECURSIVE get_key_loop(_, _, _)
get_key_loop(keys, temp_key1, n) ==
    IF n <= 0 THEN Ok(temp_key1)
    ELSE LET k == get_key(keys, temp_key1)
         IN  IF ~k.ok THEN k ELSE get_key_loop(keys, k.val, n - 1)

\* A mutation of the loop count: range(temp_key1 - num2 + 1).
loop_count_plus_one(temp_key1) ==
    LET num1 == Low32(BigShrBytes(BigMul(<< 37, 73, 146, 36 >>, temp_key1), 4))
        num2 == BigMul(BigShr1(BigShr1(BigAdd(BigShr1(BigSub(temp_key1, num1)), num1))), << 7 >>)
    IN  ToInt(BigSub(temp_key1, num2)) + 1

\* temp_key1 - num2 + 2 with num2 = ((temp_key1 - num1 >> 1) + num1 >> 2) * 7
loop_count(temp_key1) ==
    LET num1 == Low32(BigShrBytes(BigMul(<< 37, 73, 146, 36 >>, temp_key1), 4))
        num2 == BigMul(BigShr1(BigShr1(BigAdd(BigShr1(BigSub(temp_key1, num1)), num1))), << 7 >>)
    IN  ToInt(BigSub(temp_key1, num2)) + 2

\* A mutation of _calc_blowfish_keys: the signed constant is left out.
calc_blowfish_keys_one_constant(keys, temp_key) ==
    LET temp_key1 == XorBytes(<< 92, 194, 2, 142 >>, temp_key)
        looped == get_key_loop(keys, temp_key1, loop_count(temp_key1))
    IN  IF ~looped.ok THEN looped
        ELSE Ok(XorBytes(looped.val, << 194, 245, 82, 67 >>))

calc_blowfish_keys(keys, temp_key) ==
    LET temp_key1 == XorBytes(<< 92, 194, 2, 142 >>, temp_key)
        looped == get_key_loop(keys, temp_key1, loop_count(temp_key1))
    IN  IF ~looped.ok THEN looped
        ELSE Ok(XorBytes(XorBytes(looped.val, << 194, 245, 82, 67 >>), U32Bytes(-850380898)))

\* swap: (uint32 >> right_shift) | ((uint32 << left_shift) & 0xFFFFFFFF)
swap(uint32, right_shift) ==
    [ j \in 1..4 |->
        BitOf(uint32, (8 * (j - 1) + right_shift) % 32)
        + 2 * BitOf(uint32, (8 * (j - 1) + 1 + right_shift) % 32)
        + 4 * BitOf(uint32, (8 * (j - 1) + 2 + right_shift) % 32)
        + 8 * BitOf(uint32, (8 * (j - 1) + 3 + right_shift) % 32)
        + 16 * BitOf(uint32, (8 * (j - 1) + 4 + right_shift) % 32)
        + 32 * BitOf(uint32, (8 * (j - 1) + 5 + right_shift) % 32)
        + 64 * BitOf(uint32, (8 * (j - 1) + 6 + right_shift) % 32)
        + 128 * BitOf(uint32, (8 * (j - 1) + 7 + right_shift) % 32) ]

\* file_size is the u32 of the metadata, as its 4 little-endian bytes.
\* unpack_from("i", magic_numbers, 0x6C) raises struct.error on a short blob.
get_blowfish_keys(magic_numbers, file_size) ==
    IF Len(magic_numbers) < 112 THEN Raise("struct.error")
    ELSE LET int_6c == SubSeq(magic_numbers, 109, 112)
             crc == crc32(Slice(magic_numbers, 124, 220))
             temp_key == XorBytes(XorBytes(crc, int_6c), XorBytes(file_size, << 194, 245, 82, 67 >>))
             key == get_key(magic_numbers, temp_key)
         IN  IF ~key.ok THEN key
             ELSE LET group1_blowfish0 == calc_blowfish_keys(magic_numbers, key.val)
                  IN  IF ~group1_blowfish0.ok THEN group1_blowfish0
                      ELSE LET group1_blowfish1 == get_key(magic_numbers, group1_blowfish0.val)
                           IN  IF ~group1_blowfish1.ok THEN group1_blowfish1
                               ELSE Ok([ group_headers_key |-> swap(group1_blowfish0.val, 19),
                                         group1_keys |-> << group1_blowfish0.val, group1_blowfish1.val >>,
                                         group2_keys |-> << swap(group1_blowfish0.val, 15),
                                                            swap(group1_blowfish1.val, 15) >> ])

(***************************************************************************)
(* datafile.py: DataFile.  A DataFile is [name, data, header]; header is   *)
(* None until update_header builds it.                                     *)
(***************************************************************************)
DataFile(name, data) == [ name |-> name, data |-> data, header |-> None ]

\* DataFileHeader.write: the fixed struct, the name, the padding to header_size.
DataFileHeader_write(header) ==
    LET filename_space == header.header_size - FORMAT_size
    IN  Pack4s(header.extension) \o PackU32(header.file_size) \o PackU32(header.data_size)
            \o PackU32(header.header_size) \o PackU32(header.filename_size)
            \o PackU32(header.field_0x14) \o Zeros(40)
            \o header.filename_bytes \o Zeros(filename_space - Len(header.filename_bytes))

\* DataFile.update_header
update_header(file) == [ file EXCEPT !.header = for_file(file.name, Len(file.data)) ]

\* DataFile.write(stream, include_header=True): the bytes appended to the stream.
DataFile_write(file) ==
    LET header == update_header(file).header
    IN  DataFileHeader_write(header) \o file.data \o Zeros(pad_size(header))

\* DataFileHeader.read hands DataFileHeader.FORMAT, a struct.Struct, to
\* read_struct, whose struct.calcsize(fmt) accepts only a format string:
\* the call raises TypeError before anything is read.
DataFileHeader_read(data, start) == Raise("TypeError")

\* str(file_index)
RECURSIVE Decimal(_)
Decimal(n) == IF n < 10 THEN << 48 + n >> ELSE Decimal(n \div 10) \o << 48 + (n % 10) >>

\* f"unnamed_{file_index}.bin"
UnnamedName(file_index) ==
    << 117, 110, 110, 97, 109, 101, 100, 95 >> \o Decimal(file_index) \o << 46, 98, 105, 110 >>

\* DataFile.from_stream on the stream holding data, positioned at start:
\* the file read and the position reached.
from_stream(data, start, file_index) ==
    LET ext == Slice(data, start, start + 4)
        headerless == is_headerless_file(ext)
    IN  IF ~headerless.ok THEN headerless
        ELSE IF headerless.val
        THEN Ok([ file |-> [ name |-> UnnamedName(file_index),
                             data |-> Slice(data, start, Len(data)),
                             header |-> None ],
                  pos |-> Max(start, Len(data)) ])
        ELSE DataFileHeader_read(data, start)

\* DataFile.from_bytes
from_bytes(data, file_index) == from_stream(data, 0, file_index)

(***************************************************************************)
(* group.py                                                                *)
(***************************************************************************)
GroupHeader(original_size, compressed_size, file_count, crc) ==
    [ original_size |-> original_size, compressed_size |-> compressed_size,
      file_count |-> file_count, crc32 |-> crc ]

stored_size(header) ==
    IF header.compressed_size # 0 THEN header.compressed_size ELSE header.original_size

GroupHeader_write(header) ==
    PackU32(header.original_size) \o PackU32(header.compressed_size)
        \o PackU32(header.file_count) \o header.crc32

\* GroupHeader.read: 16 bytes at pos, struct.error when fewer are left.
GroupHeader_read(data, pos) ==
    IF Len(data) - pos < 16 THEN Raise("struct.error")
    ELSE Ok(GroupHeader(UnpackU32(data, pos), UnpackU32(data, pos + 4),
                        UnpackU32(data, pos + 8), SubSeq(data, pos + 13, pos + 16)))

\* A mutation of get_group_header: the checksum of an empty string.
get_group_header_no_crc(data, file_count, original_size) ==
    GroupHeader(original_size, Len(data), file_count, crc32(<< >>))

get_group_header(data, file_count, original_size) ==
    GroupHeader(original_size, Len(data), file_count, crc32(data))

RECURSIVE combine_group(_)
combine_group(files) ==
    IF Len(files) = 0 THEN << >> ELSE DataFile_write(Head(files)) \o combine_group(Tail(files))

\* np.frombuffer(data, dtype=np.uint8) ^ 0x95
Xor95(data) == [ i \in 1..Len(data) |-> Xor(data[i], 149) ]

compress_group(data, options) ==
    IF Len(data) = 0 THEN Ok(data)
    ELSE CASE options.mode = "none" -> Ok(data)
           [] options.mode = "kraken" -> Ok(kraken_compress(data, options.level))
           [] options.mode = "prs" -> Ok(Xor95(prs_compress(data)))
           [] OTHER -> Raise("NotImplementedError")

decompress_group(data, out_size, options) ==
    CASE options.mode = "none" -> Ok(data)
      [] options.mode = "kraken" -> kraken_decompress(data, out_size)
      [] options.mode = "prs" -> prs_decompress(Xor95(data), out_size)
      [] OTHER -> Raise("NotImplementedError")

\* floatage_decrypt of group.py: the floatage cipher with its default shift.
floatage_decrypt(data, key) == floatage_decrypt_block(data, key, 16)

\* A mutation of decrypt_group: the floatage stage follows the first
\* Blowfish pass.
decrypt_group_floatage_second(data, keys, second_pass_threshold, v3_decrypt) ==
    LET key1 == keys[1]
        key2 == keys[2]
        first == blowfish_decrypt(data, key1)
    IN  IF ~first.ok THEN first
        ELSE LET floated == IF ~v3_decrypt THEN floatage_decrypt(first.val, key1) ELSE first
             IN  IF ~floated.ok THEN floated
                 ELSE IF ~v3_decrypt /\ Len(floated.val) <= second_pass_threshold
                      THEN blowfish_decrypt(floated.val, key2)
                      ELSE floated

decrypt_group(data, keys, second_pass_threshold, v3_decrypt) ==
    LET key1 == keys[1]
        key2 == keys[2]
        floated == IF ~v3_decrypt THEN floatage_decrypt(data, key1) ELSE Ok(data)
    IN  IF ~floated.ok THEN floated
        ELSE LET first == blowfish_decrypt(floated.val, key1)
             IN  IF ~first.ok THEN first
                 ELSE IF ~v3_decrypt /\ Len(first.val) <= second_pass_threshold
                      THEN blowfish_decrypt(first.val, key2)
                      ELSE first

\* extract_group on the stream holding data, positioned at pos: the group's
\* plaintext and the position reached.  keys is None when there are none.
extract_group(header, data, pos, compression, encrypted, keys, second_pass_threshold, v3_decrypt) ==
    IF stored_size(header) = 0 THEN Ok([ data |-> << >>, pos |-> pos ])
    ELSE LET raw == Slice(data, pos, pos + stored_size(header))
             after == pos + Len(raw)
         IN  Bind(IF ~encrypted THEN Ok(raw)
                  ELSE IF keys = None THEN Raise("AssertionError")
                  ELSE decrypt_group(raw, keys, second_pass_threshold, v3_decrypt),
                  LAMBDA plain :
                     IF ~plain.ok THEN plain
                     ELSE IF header.compressed_size # 0
                     THEN Bind(decompress_group(plain.val, header.original_size, compression),
                               LAMBDA out : IF ~out.ok THEN out
                                            ELSE Ok([ data |-> out.val, pos |-> after ]))
                     ELSE Ok([ data |-> plain.val, pos |-> after ]))

\* struct.unpack("i", data[off:off+4])[0]
UnpackI32(data, off) ==
    data[off + 1] + 256 * data[off + 2] + 65536 * data[off + 3]
        + 16777216 * (IF data[off + 4] < 128 THEN data[off + 4] ELSE data[off + 4] - 256)

\* stream.read(size): everything left when size is negative.
StreamRead(data, pos, size) ==
    IF size < 0 THEN Slice(data, pos, Len(data)) ELSE Slice(data, pos, pos + size)

RECURSIVE split_headerless_nifl_loop(_, _, _, _, _)
split_headerless_nifl_loop(file_count, data, i, start, files) ==
    IF i >= file_count THEN Ok(files)
    ELSE IF Slice(data, start, start + 4) # NIFL
    THEN \* Nameless file for remaining file data
         LET last == from_stream(data, start, i)
         IN  IF ~last.ok THEN last ELSE Ok(Append(files, last.val.file))
    ELSE IF Len(data) - (start + 4) < 20 THEN Raise("struct.error")
    ELSE LET size == UnpackI32(data, start + 20)
             at_nof0 == Max(start + 24 + size - 16, 0)
         IN  IF Len(data) - at_nof0 < 4 THEN Raise("struct.error")
             ELSE LET nof0_size == UnpackI32(data, at_nof0) + 8
                      padded == nof0_size + 16 - (nof0_size % 16)
                      extent == size + padded + 16
                      record == StreamRead(data, start, extent)
                      file == from_bytes(record, i)
                  IN  IF ~file.ok THEN file
                      ELSE split_headerless_nifl_loop(file_count, data, i + 1, start + Len(record),
                                                      Append(files, file.val.file))

\* A mutation of _split_headerless_nifl: the loop runs one time less.
split_headerless_nifl_one_less(header, data) ==
    split_headerless_nifl_loop(header.file_count - 1, data, 0, 0, << >>)

split_headerless_nifl(header, data) ==
    split_headerless_nifl_loop(header.file_count, data, 0, 0, << >>)

\* The single record is the payload itself, a byte string and no DataFile.
split_headerless_file(header, data) ==
    IF header.file_count # 1 THEN Raise("ValueError") ELSE Ok(<< [ raw |-> data ] >>)

RECURSIVE split_normal_group_loop(_, _, _, _, _)
split_normal_group_loop(file_count, data, i, pos, files) ==
    IF i >= file_count THEN Ok(files)
    ELSE LET file == from_stream(data, pos, i)
         IN  IF ~file.ok THEN file
             ELSE split_normal_group_loop(file_count, data, i + 1, file.val.pos,
                                          Append(files, file.val.file))

split_normal_group(header, data) == split_normal_group_loop(header.file_count, data, 0, 0, << >>)

split_group(header, data) ==
    IF Len(data) = 0 THEN Ok(<< >>)
    ELSE IF is_nifl(data) THEN split_headerless_nifl(header, data)
    ELSE IF is_headerless_file(data).val THEN split_headerless_file(header, data)
    ELSE split_normal_group(header, data)

(***************************************************************************)
(* icefile.py                                                              *)
(***************************************************************************)
SIGNATURE == << 73, 67, 69, 0 >>

ENCRYPTED == 1

KRAKEN_COMPRESSED == 8

\* 0x20 archive header, 0x100 encryption keys, 0x30 group headers
HEADER_SIZE == 336

SECOND_PASS_THRESHOLD == 102400

\* bitmask & flag != 0 for a one-bit flag
HasFlag(bitmask, flag) == (bitmask \div flag) % 2 = 1

\* set_flag: (bitmask & ~flag) | (flag if value else 0)
set_flag(bitmask, flag, value) ==
    (IF HasFlag(bitmask, flag) THEN bitmask - flag ELSE bitmask) + (IF value THEN flag ELSE 0)

IceFileMetadata == [ magic_ff |-> 255, crc32 |-> << 0, 0, 0, 0 >>, flags |-> 0, file_size |-> 0 ]

\* IceFileV3() and IceFileV4(): the fields' defaults, then header.version.
NewIceFile(version) ==
    [ header |-> [ signature |-> SIGNATURE, version |-> version, magic_80 |-> 128 ],
      meta |-> IceFileMetadata,
      group1_header |-> None,
      group2_header |-> None,
      group1_files |-> << >>,
      group2_files |-> << >> ]

IceFileHeader_write(header) ==
    Pack4s(header.signature) \o Zeros(4) \o PackU32(header.version) \o PackU32(header.magic_80)

IceFileMetadata_write(meta) ==
    PackU32(meta.magic_ff) \o meta.crc32 \o PackU32(meta.flags) \o PackU32(meta.file_size)

\* The files of a list after DataFile.write has rebuilt their headers.
WithHeaders(files) == [ i \in 1..Len(files) |-> update_header(files[i]) ]

\* A mutation of IceFileV4._write's size: the group headers' tail is not counted.
file_size_no_tail(group1_data, group2_data) == 32 + 256 + 32 + Len(group1_data) + Len(group2_data)

\* self.meta.file_size = HEADER_SIZE + len(group1_data) + len(group2_data)
file_size_of(group1_data, group2_data) == HEADER_SIZE + Len(group1_data) + Len(group2_data)

\* self.meta.crc32 = crc32(group1_data, group2_data)
archive_crc(group1_data, group2_data) == crc32(group1_data \o group2_data)

\* IceFileV4._write: the object after the call, the bytes it wrote and how
\* the call ended.
IceFileV4_write(self, compression, encrypt) ==
    LET flags == set_flag(set_flag(self.meta.flags, ENCRYPTED, encrypt),
                          KRAKEN_COMPRESSED, compression.mode = "kraken")
        plain1 == combine_group(self.group1_files)
        plain2 == combine_group(self.group2_files)
        group1_data == compress_group(plain1, compression)
        group2_data == compress_group(plain2, compression)
        flagged == [ self EXCEPT !.meta.flags = flags,
                                 !.group1_files = WithHeaders(@),
                                 !.group2_files = WithHeaders(@) ]
    IN  IF ~group1_data.ok THEN [ self |-> flagged, out |-> << >>, result |-> group1_data ]
        ELSE IF ~group2_data.ok THEN [ self |-> flagged, out |-> << >>, result |-> group2_data ]
        ELSE LET group1_header == get_group_header(group1_data.val, Len(self.group1_files), Len(plain1))
                 group2_header == get_group_header(group2_data.val, Len(self.group2_files), Len(plain2))
                 meta == [ self.meta EXCEPT !.flags = flags,
                                            !.file_size = file_size_of(group1_data.val, group2_data.val),
                                            !.crc32 = archive_crc(group1_data.val, group2_data.val) ]
                 written == [ flagged EXCEPT !.meta = meta,
                                             !.group1_header = group1_header,
                                             !.group2_header = group2_header ]
             IN  IF HasFlag(meta.flags, ENCRYPTED)
                 THEN [ self |-> written, out |-> IceFileMetadata_write(meta),
                        result |-> Raise("NotImplementedError") ]
                 ELSE [ self |-> written,
                        out |-> IceFileMetadata_write(meta) \o Zeros(256)
                                   \o GroupHeader_write(group1_header) \o GroupHeader_write(group2_header)
                                   \o PackU32(Len(plain1)) \o PackU32(Len(plain2)) \o Zeros(8)
                                   \o group1_data.val \o group2_data.val,
                        result |-> Ok(None) ]

\* A mutation of IceFileV3._write: the version-4 body is written.
IceFileV3_write_as_v4(self, compression, encrypt) == IceFileV4_write(self, compression, encrypt)

\* IceFileV3._write
IceFileV3_write(self, compression, encrypt) ==
    [ self |-> self, out |-> << >>, result |-> Raise("NotImplementedError") ]

\* IceFile.write to an open binary stream: the header, then the version's body.
IceFile_write(self, compression, encrypt) ==
    LET body == IF self.header.version = 3 THEN IceFileV3_write(self, compression, encrypt)
                ELSE IceFileV4_write(self, compression, encrypt)
    IN  [ body EXCEPT !.out = IceFileHeader_write(self.header) \o @ ]

\* IceFileHeader.read
IceFileHeader_read(data) ==
    IF Len(data) < 16 THEN Raise("struct.error")
    ELSE IF SubSeq(data, 1, 4) # SIGNATURE THEN Raise("ValueError: Not an ICE archive")
    ELSE Ok([ signature |-> SubSeq(data, 1, 4), version |-> UnpackU32(data, 8),
              magic_80 |-> UnpackU32(data, 12) ])

\* IceFileMetadata.read at pos; file_size is kept with its 4 bytes as well.
IceFileMetadata_read(data, pos) ==
    IF Len(data) - pos < 16 THEN Raise("struct.error")
    ELSE Ok([ magic_ff |-> UnpackU32(data, pos), crc32 |-> SubSeq(data, pos + 5, pos + 8),
              flags |-> UnpackU32(data, pos + 8), file_size |-> UnpackU32(data, pos + 12) ])

\* compression = CompressOptions("kraken" if meta.kraken_compressed else "prs")
ReadCompression(meta) ==
    [ mode |-> IF HasFlag(meta.flags, KRAKEN_COMPRESSED) THEN "kraken" ELSE "prs", level |-> 3 ]

\* The tail common to both readers: extract both groups from pos, split them.
ReadGroups(header, meta, group1_header, group2_header, data, pos, keys1, keys2, v3_decrypt) ==
    LET compression == ReadCompression(meta)
        encrypted == HasFlag(meta.flags, ENCRYPTED)
    IN  Bind(extract_group(group1_header, data, pos, compression, encrypted, keys1,
                           SECOND_PASS_THRESHOLD, v3_decrypt),
        LAMBDA group1_data :
        IF ~group1_data.ok THEN group1_data
        ELSE Bind(extract_group(group2_header, data, group1_data.val.pos, compression, encrypted, keys2,
                                SECOND_PASS_THRESHOLD, v3_decrypt),
        LAMBDA group2_data :
        IF ~group2_data.ok THEN group2_data
        ELSE Bind(split_group(group1_header, group1_data.val.data),
        LAMBDA group1_files :
        IF ~group1_files.ok THEN group1_files
        ELSE Bind(split_group(group2_header, group2_data.val.data),
        LAMBDA group2_files :
        IF ~group2_files.ok THEN group2_files
        ELSE Ok([ header |-> header, meta |-> meta,
                  group1_header |-> group1_header,
                  group2_header |-> group2_header,
                  group1_files |-> group1_files.val,
                  group2_files |-> group2_files.val ])))))

\* IceFileV4.read_after_header
IceFileV4_read_after_header(header, data) ==
    Bind(IceFileMetadata_read(data, 16), LAMBDA meta :
    IF ~meta.ok THEN meta
    ELSE Bind(get_blowfish_keys(Slice(data, 32, 288), Slice(data, 28, 32)), LAMBDA keys :
    IF ~keys.ok THEN keys
    ELSE Bind(IF HasFlag(meta.val.flags, ENCRYPTED)
              THEN blowfish_decrypt(Slice(data, 288, 336), keys.val.group_headers_key)
              ELSE Ok(Slice(data, 288, 336)), LAMBDA group_header_data :
    IF ~group_header_data.ok THEN group_header_data
    ELSE Bind(GroupHeader_read(group_header_data.val, 0), LAMBDA group1_header :
         Bind(GroupHeader_read(group_header_data.val, 16), LAMBDA group2_header :
    IF ~group1_header.ok THEN group1_header
    ELSE IF ~group2_header.ok THEN group2_header
    ELSE ReadGroups(header, meta.val, group1_header.val, group2_header.val,
                    data, Min(336, Len(data)),
                    keys.val.group1_keys, keys.val.group2_keys, FALSE))))))

\* IceFileV3._get_keys; the sizes and the key enter with their 4 bytes.
IceFileV3_get_keys(data, meta) ==
    IF SubSeq(data, 49, 52) # << 0, 0, 0, 0 >> THEN << SubSeq(data, 49, 52), << >> >>
    ELSE IF HasFlag(meta.flags, ENCRYPTED)
    THEN << XorBytes(XorBytes(XorBytes(SubSeq(data, 17, 20), SubSeq(data, 33, 36)),
                              XorBytes(SubSeq(data, 53, 56), SubSeq(data, 61, 64))),
                     << 154, 70, 215, 200 >>), << >> >>
    ELSE None

\* IceFileV3.read_after_header
IceFileV3_read_after_header(header, data) ==
    LET group1_header == GroupHeader_read(data, 16)
        group2_header == GroupHeader_read(data, 32)
        meta == IceFileMetadata_read(data, 64)
    IN  IF ~group1_header.ok THEN group1_header
        ELSE IF ~group2_header.ok THEN group2_header
        ELSE IF Len(data) - 48 < 16 THEN Raise("struct.error")
        ELSE IF ~meta.ok THEN meta
        ELSE LET keys == IceFileV3_get_keys(data, meta.val)
             IN  ReadGroups(header, meta.val, group1_header.val, group2_header.val,
                            data, 128, keys, keys, TRUE)

\* A mutation of IceFile.read: the version is looked at before the signature.
IceFile_read_version_first(data) ==
    IF Len(data) < 16 THEN Raise("struct.error")
    ELSE IF UnpackU32(data, 8) \notin { 3, 4 } THEN Raise("ValueError: Invalid version")
    ELSE IF SubSeq(data, 1, 4) # SIGNATURE THEN Raise("ValueError: Not an ICE archive")
    ELSE IF UnpackU32(data, 8) = 3
    THEN IceFileV3_read_after_header(IceFileHeader_read(data).val, data)
    ELSE IceFileV4_read_after_header(IceFileHeader_read(data).val, data)

\* IceFile.read from an open binary stream holding data
IceFile_read(data) ==
    LET signature == IceFileHeader_read(data)
    IN  IF ~signature.ok THEN signature
        ELSE IF signature.val.version = 3 THEN IceFileV3_read_after_header(signature.val, data)
        ELSE IF signature.val.version = 4 THEN IceFileV4_read_after_header(signature.val, data)
        ELSE Raise("ValueError: Invalid version")

(***************************************************************************)
(* SpecArchive: an IceFile of version 3 or 4 is built, files are put into  *)
(* its two groups, it is written to a byte stream under some options, and  *)
(* the written bytes are read back.                                        *)
(***************************************************************************)
ArchiveFiles ==
    { DataFile(<< 97, 46, 98, 105, 110 >>, << 104, 101, 108, 108, 111 >>),      \* a.bin: hello
      DataFile(<< 98, 46, 116, 120, 116 >>, << 119, 111, 114, 108, 100, 33 >>), \* b.txt: world!
      DataFile(<< 82, 69, 65, 68, 77, 69 >>, << 120 >>) }                       \* README: x

CompressionModes == { "none", "kraken", "prs" }

InitArchive ==
    /\ pc = "start"
    /\ args = None
    /\ ret = None
    /\ ice \in { NewIceFile(3), NewIceFile(4) }
    /\ stream = << >>
    /\ loaded = None

\* ice.group1_files / ice.group2_files receive one more file
AddFile ==
    /\ pc = "start"
    /\ \E f \in ArchiveFiles :
          \/ /\ Len(ice.group1_files) < MaxFiles
             /\ ice' = [ ice EXCEPT !.group1_files = Append(@, f) ]
          \/ /\ Len(ice.group2_files) < MaxFiles
             /\ ice' = [ ice EXCEPT !.group2_files = Append(@, f) ]
    /\ UNCHANGED << pc, args, ret, stream, loaded >>

\* ice.write(stream, compression=..., encrypt=...)
Write ==
    /\ pc = "start"
    /\ \E mode \in CompressionModes, encrypt \in BOOLEAN :
          LET compression == [ mode |-> mode, level |-> 3 ]
              w == IceFile_write(ice, compression, encrypt)
          IN  /\ args' = [ compression |-> compression, encrypt |-> encrypt,
                           group1_files |-> ice.group1_files, group2_files |-> ice.group2_files ]
              /\ ice' = w.self
              /\ stream' = stream \o w.out
              /\ ret' = w.result
    /\ pc' = "written"
    /\ UNCHANGED loaded

\* IceFile.read(BytesIO(written bytes))
Read ==
    /\ pc = "written"
    /\ loaded' = IceFile_read(stream)
    /\ pc' = "read"
    /\ UNCHANGED << args, ret, ice, stream >>

NextArchive == AddFile \/ Write \/ Read

SpecArchive == InitArchive /\ [][NextArchive]_vars

\* The (name, data) pairs of a list of records; a record that is a bare byte
\* string has no name.
Pairs(files) ==
    [ i \in 1..Len(files) |->
        IF "raw" \in DOMAIN files[i]
        THEN [ named |-> FALSE, name |-> << >>, data |-> files[i].raw ]
        ELSE [ named |-> TRUE, name |-> files[i].name, data |-> files[i].data ] ]

\* The bytes the writer stores for a list of files under the options of the call.
Stored(files, compression) == compress_group(combine_group(files), compression).val

\* C1: for an IceFileV4 with two lists of DataFile records and every
\* compression mode with encrypt=false, reading the written bytes back yields
\* the same (name, data) pairs in the same order for both groups.
RoundTripV4 ==
    (pc = "read" /\ ice.header.version = 4 /\ ~args.encrypt) =>
        /\ loaded.ok
        /\ Pairs(loaded.val.group1_files) = Pairs(args.group1_files)
        /\ Pairs(loaded.val.group2_files) = Pairs(args.group2_files)

CompressedSizeZeroIffUncompressed ==
    (pc = "written" /\ ice.header.version = 4 /\ ret.ok) =>
        LET group1_header == GroupHeader_read(stream, 288).val
            group2_header == GroupHeader_read(stream, 304).val
        IN  /\ group1_header = ice.group1_header
            /\ group2_header = ice.group2_header
            /\ IF args.compression.mode = "none"
               THEN /\ group1_header.compressed_size = 0
                    /\ group2_header.compressed_size = 0
               ELSE /\ group1_header.compressed_size = Len(Stored(args.group1_files, args.compression))
                    /\ group2_header.compressed_size = Len(Stored(args.group2_files, args.compression))

\* C4: after any v4 write each GroupHeader.crc32 is the CRC-32 of that
\* group's stored bytes, and the metadata crc32 is the CRC-32 of group 1's
\* stored bytes followed by group 2's; the bytes on the stream carry the same
\* checksums, next to the payloads they are taken over.
CrcConsistency ==
    (pc = "written" /\ ice.header.version = 4) =>
        LET stored1 == Stored(args.group1_files, args.compression)
            stored2 == Stored(args.group2_files, args.compression)
        IN  /\ ice.group1_header.crc32 = crc32(stored1)
            /\ ice.group2_header.crc32 = crc32(stored2)
            /\ ice.meta.crc32 = crc32(stored1 \o stored2)
            /\ SubSeq(stream, 21, 24) = crc32(stored1 \o stored2)
            /\ ret.ok =>
                  /\ GroupHeader_read(stream, 288).val.crc32 = crc32(stored1)
                  /\ GroupHeader_read(stream, 304).val.crc32 = crc32(stored2)
                  /\ Slice(stream, 336, Len(stream)) = stored1 \o stored2

\* A compressed archive with files in both groups, whose three checksums differ.
CrcConsistencyWitness ==
    /\ pc = "written"
    /\ ice.header.version = 4
    /\ ret.ok
    /\ args.compression.mode # "none"
    /\ Len(args.group1_files) > 0
    /\ Len(args.group2_files) > 0
    /\ ice.group1_header.crc32 # ice.group2_header.crc32
    /\ ice.meta.crc32 # ice.group1_header.crc32
    /\ ice.meta.crc32 # << 0, 0, 0, 0 >>

\* C5: for every successful v4 write to a stream, the file_size written in
\* the metadata is 0x150 + len(stored group 1) + len(stored group 2), which
\* is the number of bytes the write emitted.
FileSizeIsArchiveLength ==
    (pc = "written" /\ ice.header.version = 4 /\ ret.ok) =>
        /\ UnpackU32(stream, 28)
              = 336 + Len(Stored(args.group1_files, args.compression))
                    + Len(Stored(args.group2_files, args.compression))
        /\ UnpackU32(stream, 28) = Len(stream)
        /\ ice.meta.file_size = Len(stream)

\* A successful write of an archive with stored bytes in both groups.
FileSizeIsArchiveLengthWitness ==
    /\ pc = "written"
    /\ ice.header.version = 4
    /\ ret.ok
    /\ Len(Stored(args.group1_files, args.compression)) > 0
    /\ Len(Stored(args.group2_files, args.compression)) > 0
    /\ Len(stream) > 336

(***************************************************************************)
(* SpecGroup: a list of DataFile records is combined into a group's bytes  *)
(* and the bytes are split again under a header counting the records.      *)
(***************************************************************************)
GroupFiles ==
    { DataFile(<< 97, 46, 98, 105, 110 >>, << 104, 101, 108, 108, 111 >>),      \* a.bin: hello
      DataFile(<< 98, 46, 116, 120, 116 >>, << 119, 111, 114, 108, 100, 33 >>), \* b.txt: world!
      DataFile(<< 99, 46, 98, 105, 110 >>, << >>),                              \* c.bin: empty
      DataFile(<< 100, 46, 100, 100, 115 >>, Rep(255, 17)),                     \* d.dds
      DataFile(<< 82, 69, 65, 68, 77, 69 >>, << 120 >>),                        \* README: x
      DataFile(<< 101, 46, 66, 73, 78 >>, << 1, 2, 3 >>) }                      \* e.BIN

InitGroup ==
    /\ pc = "start"
    /\ args = << >>
    /\ ret = None
    /\ ice = None
    /\ stream = << >>
    /\ loaded = None

\* one more record in the list
GroupAdd ==
    /\ pc = "start"
    /\ Len(args) < MaxGroupFiles
    /\ \E f \in GroupFiles : args' = Append(args, f)
    /\ UNCHANGED << pc, ret, ice, stream, loaded >>

\* data = combine_group(list)
Combine ==
    /\ pc = "start"
    /\ ret' = combine_group(args)
    /\ pc' = "combined"
    /\ UNCHANGED << args, ice, stream, loaded >>

\* split_group(h, data) with h built from data and file_count = len(list)
Split ==
    /\ pc = "combined"
    /\ loaded' = split_group(get_group_header(ret, Len(args), Len(ret)), ret)
    /\ pc' = "split"
    /\ UNCHANGED << args, ret, ice, stream >>

NextGroup == GroupAdd \/ Combine \/ Split

SpecGroup == InitGroup /\ [][NextGroup]_vars

\* The combined bytes are those of a normal group: neither a NIFL file nor a
\* payload whose first byte marks it as headerless.
NotHeaderlessShape(data) ==
    /\ Len(data) > 0
    /\ ~is_nifl(data)
    /\ ~is_headerless_file(data).val

\* C9: for every list of DataFile records not of headerless shape,
\* split_group(h, combine_group(list)) with h.file_count = len(list) returns
\* the same records: the same names and payloads in the same order.
SplitCombineDuality ==
    (pc = "split" /\ NotHeaderlessShape(ret)) =>
        /\ loaded.ok
        /\ Pairs(loaded.val) = Pairs(args)

(***************************************************************************)
(* SpecNifl: a group payload is put together from NIFL records and blobs   *)
(* and split under a header declaring some number of files.                *)
(***************************************************************************)
\* A NIFL record: the magic, 16 bytes, the body size, the body, the NOF0
\* length, and zeros up to the extent _split_headerless_nifl computes.
NiflRecord(size, nof0, extent) ==
    LET head == NIFL \o Zeros(16) \o PackU32(size) \o Zeros(size - 16) \o PackU32(nof0)
    IN  head \o Zeros(extent - Len(head))

NiflParts ==
    { NiflRecord(16, 0, 48),               \* the smallest record
      NiflRecord(16, 8, 64),               \* a NOF0 chunk already a multiple of 16
      NiflRecord(32, 3, 64),               \* a longer body
      << 0, 1, 2, 3, 4 >>,                 \* a blob with a headerless first byte
      << 97, 98, 99, 100, 101 >>,          \* a blob with a lowercase first byte
      SubSeq(NiflRecord(16, 0, 48), 1, 22) \* a record cut inside its size field
    }

RECURSIVE Flatten(_)
Flatten(parts) == IF Len(parts) = 0 THEN << >> ELSE Head(parts) \o Flatten(Tail(parts))

InitNifl ==
    /\ pc = "start"
    /\ args = [ parts |-> << >>, file_count |-> 0 ]
    /\ ret = None
    /\ ice = None
    /\ stream = << >>
    /\ loaded = None

\* one more part at the end of the payload
NiflAdd ==
    /\ pc = "start"
    /\ Len(args.parts) < MaxParts
    /\ \E part \in NiflParts : args' = [ args EXCEPT !.parts = Append(@, part) ]
    /\ UNCHANGED << pc, ret, ice, stream, loaded >>

\* split_group(header, data) with header.file_count = file_count
NiflSplit ==
    /\ pc = "start"
    /\ \E file_count \in 0..(MaxParts + 1) :
          LET data == Flatten(args.parts)
          IN  /\ args' = [ args EXCEPT !.file_count = file_count ]
              /\ ret' = data
              /\ loaded' = split_group(GroupHeader(Len(data), 0, file_count, crc32(data)), data)
    /\ pc' = "split"
    /\ UNCHANGED << ice, stream >>

NextNifl == NiflAdd \/ NiflSplit

SpecNifl == InitNifl /\ [][NextNifl]_vars

\* The payloads of a list of records, one after the other.
RecordBytes(files) == Flatten([ i \in 1..Len(files) |-> files[i].data ])

Signatures == { SIGNATURE, << 73, 67, 69, 1 >>, << 88, 67, 69, 0 >>, << 0, 0, 0, 0 >> }

\* 259 has the low byte of version 3
Versions == 0..MaxVersion \cup { 259 }

\* What follows the 16-byte header in an empty unencrypted version-3
\* archive: two group headers, the group info, the metadata, 0x30 bytes.
EmptyV3Body == Zeros(48) \o IceFileMetadata_write(IceFileMetadata) \o Zeros(48)

\* What IceFileV4._write writes for an archive without files.
EmptyV4Body == IceFileV4_write(NewIceFile(4), [ mode |-> "none", level |-> 3 ], FALSE).out

Bodies == { << >>, EmptyV3Body, EmptyV4Body, SubSeq(EmptyV4Body, 1, 40) }

InitRead ==
    /\ pc = "start"
    /\ args \in [ signature : Signatures, version : Versions, body : Bodies, cut : { 0, 7, 16 } ]
    /\ args.cut # 16 => args.body = << >>
    /\ ret = None
    /\ ice = None
    /\ stream = SubSeq(IceFileHeader_write([ signature |-> args.signature, version |-> args.version,
                                             magic_80 |-> 128 ]), 1, args.cut) \o args.body
    /\ loaded = None

\* IceFile.read(stream)
ReadArchive ==
    /\ pc = "start"
    /\ loaded' = IceFile_read(stream)
    /\ pc' = "read"
    /\ UNCHANGED << args, ret, ice, stream >>

NextRead == ReadArchive

SpecRead == InitRead /\ [][NextRead]_vars

\* C12: IceFile.read checks the signature first and the version second: a
\* header whose signature is not ICE\0 fails as not an archive whatever its
\* version; a valid signature with a version outside {3, 4} fails as an
\* unsupported version; version 3 goes to the v3 reader and version 4 to the
\* v4 reader; no file lists come out of either error.  (A stream that ends
\* inside the 16-byte header has neither field to check: struct.error.)
ReadDispatch ==
    /\ (pc = "read" /\ args.cut < 16) => loaded = Raise("struct.error")
    /\ (pc = "read" /\ args.cut = 16) =>
           LET header == [ signature |-> args.signature, version |-> args.version, magic_80 |-> 128 ]
           IN  /\ args.signature # << 73, 67, 69, 0 >> =>
                     loaded = Raise("ValueError: Not an ICE archive")
               /\ (args.signature = << 73, 67, 69, 0 >> /\ args.version \notin { 3, 4 }) =>
                     loaded = Raise("ValueError: Invalid version")
               /\ (args.signature = << 73, 67, 69, 0 >> /\ args.version = 3) =>
                     /\ loaded = IceFileV3_read_after_header(header, stream)
                     /\ loaded.ok <=> args.body = EmptyV3Body
               /\ (args.signature = << 73, 67, 69, 0 >> /\ args.version = 4) =>
                     /\ loaded = IceFileV4_read_after_header(header, stream)
                     /\ loaded.ok <=> args.body = EmptyV4Body
               /\ loaded.ok =>
                     /\ loaded.val.header = header
                     /\ loaded.val.group1_files = << >>
                     /\ loaded.val.group2_files = << >>
               /\ ~loaded.ok => DOMAIN loaded = { "ok", "err" }

\* A wrong signature in front of a version-4 body that would read well.
ReadDispatchWitness ==
    /\ pc = "read"
    /\ args.cut = 16
    /\ args.signature # SIGNATURE
    /\ args.version = 4
    /\ args.body = EmptyV4Body
    /\ ~loaded.ok

(***************************************************************************)
(* SpecRecord: DataFile.from_bytes on the bytes of one record whose header *)
(* fields are chosen freely.                                               *)
(***************************************************************************)
\* struct.pack("<4sIIIII40x", ...), the name, zeros up to 0x50, 16 bytes of payload
RecordBytesOf(h) ==
    Pack4s(h.extension) \o PackU32(h.file_size) \o PackU32(h.data_size) \o PackU32(h.header_size)
        \o PackU32(h.filename_size) \o PackU32(1) \o Zeros(40)
        \o << 97, 46, 98, 105, 110 >> \o Zeros(11) \o Rep(7, 16)

RecordHeaders ==
    [ extension : { << 98, 105, 110, 0 >>, << 0, 0, 0, 0 >>, << 66, 73, 78, 0 >> },
      file_size : { 0, 80, 96, 112 },
      data_size : { 0, 5, 16, 17, 200 },
      header_size : { 0, 64, 79, 80, 96 },
      filename_size : { 5 } ]

InitRecord ==
    /\ pc = "start"
    /\ args \in RecordHeaders
    /\ ret = None
    /\ ice = None
    /\ stream = RecordBytesOf(args)
    /\ loaded = None

\* DataFile.from_bytes(record)
DecodeRecord ==
    /\ pc = "start"
    /\ loaded' = from_bytes(stream, 0)
    /\ pc' = "decoded"
    /\ UNCHANGED << args, ret, ice, stream >>

NextRecord == DecodeRecord

SpecRecord == InitRecord /\ [][NextRecord]_vars

\* The record starts with a DataFileHeader: its first byte is not one of a
\* headerless payload.
HasRecordHeader(data) == ~is_headerless_file(data).val

\* The exceptions this code base raises for input that breaks a format rule.
MalformedErrors == { "ValueError", "struct.error" }

\* C13: decoding a record header fails as a malformed record whenever
\* header_size < 0x50 or data_size > file_size - header_size; no DataFile is
\* returned for such a record.
MalformedRecordRejected ==
    (/\ pc = "decoded"
     /\ HasRecordHeader(stream)
     /\ args.header_size < 80 \/ args.data_size > args.file_size - args.header_size) =>
        /\ ~loaded.ok
        /\ loaded.err \in MalformedErrors

(***************************************************************************)
(* SpecPrs: decompress_prs on a bit stream and an out_size.                *)
(***************************************************************************)
\* Control bytes 0, 1, 7 and 255 (all references, one, three and eight
\* literals first); 65 and 255 as data (offset -1 in a short reference).
PrsBytes == { 0, 1, 7, 65, 255 }

InitPrs ==
    /\ pc = "start"
    /\ args \in [ data : SeqsUpTo(PrsBytes, MaxPrsLen), out_size : 0..MaxOut ]
    /\ ret = None
    /\ ice = None
    /\ stream = << >>
    /\ loaded = None

\* decompress_prs(data, out_size)
Decompress ==
    /\ pc = "start"
    /\ ret' = decompress_prs(args.data, args.out_size)
    /\ pc' = "decompressed"
    /\ UNCHANGED << args, ice, stream, loaded >>

NextPrs == Decompress

SpecPrs == InitPrs /\ [][NextPrs]_vars

\* C14: for every input and every out_size the byte string decompress_prs
\* returns has length at most out_size.
PrsOutputBound ==
    (pc = "decompressed" /\ ret.ok) => Len(ret.val) <= args.out_size

\* C19: for every input, one that ends where a control byte is expected
\* included, and every out_size, decompress_prs ends by returning the bytes
\* decoded so far and raises no error.
PrsHaltsCleanly ==
    pc = "decompressed" => ret.ok

(***************************************************************************)
(* SpecPrsCopy: the back-reference step of decompress_prs on an output of  *)
(* some bytes, with out_size far enough for the clamp not to apply.        *)
(***************************************************************************)
InitPrsCopy ==
    /\ pc = "start"
    /\ args \in [ output : SeqsUpTo({ 65, 66 }, 3) \ { << >> },
                  control_offset : -3..-1,
                  control_size : 2..MaxCopy ]
    /\ ret = None
    /\ ice = None
    /\ stream = << >>
    /\ loaded = None

\* control_size = min(...); load_index = ...; output.extend(output[...])
CopyReference ==
    /\ pc = "start"
    /\ ret' = PrsCopy([ PrsStart EXCEPT !.out = args.output ],
                      Len(args.output) + args.control_size, args.control_offset, args.control_size).out
    /\ pc' = "copied"
    /\ UNCHANGED << args, ice, stream, loaded >>

NextPrsCopy == CopyReference

SpecPrsCopy == InitPrsCopy /\ [][NextPrsCopy]_vars

\* C20: a back-reference of size n at negative offset o appends exactly n
\* bytes, each the byte o positions before it in the output as it grows, so
\* that for n > -o the copied bytes repeat with period -o.
PrsCopyByteByByte ==
    (pc = "copied" /\ Len(args.output) + args.control_offset >= 0) =>
        /\ Len(ret) = Len(args.output) + args.control_size
        /\ SubSeq(ret, 1, Len(args.output)) = args.output
        /\ \A k \in (Len(args.output) + 1)..Len(ret) : ret[k] = ret[k + args.control_offset]


(***************************************************************************)
(* Archives whose input ends early                                         *)
(***************************************************************************)
MaxCut == 24

\* The bytes of an unencrypted, uncompressed version-4 archive whose first
\* group is `data` with `file_count` records and whose second group is empty.
RawArchive(data, file_count) ==
    IceFileHeader_write(NewIceFile(4).header)
       \o IceFileMetadata_write([ IceFileMetadata EXCEPT !.file_size = file_size_of(data, << >>),
                                                         !.crc32 = archive_crc(data, << >>) ])
       \o Zeros(256)
       \o GroupHeader_write(GroupHeader(Len(data), 0, file_count, crc32(data)))
       \o GroupHeader_write(GroupHeader(0, 0, 0, crc32(<< >>)))
       \o PackU32(Len(data)) \o PackU32(0) \o Zeros(8)
       \o data

TruncatedGroups ==
    { [ data |-> NiflRecord(16, 0, 48), file_count |-> 1 ],
      [ data |-> NiflRecord(16, 0, 48) \o NiflRecord(16, 8, 64), file_count |-> 2 ],
      [ data |-> [ i \in 1..32 |-> i - 1 ], file_count |-> 1 ],     \* a headerless blob
      [ data |-> combine_group(<< DataFile(<< 97, 46, 98, 105, 110 >>, << 104, 101, 108, 108, 111 >>) >>),
        file_count |-> 1 ] }                                        \* a record with its header

InitTruncated ==
    /\ pc = "start"
    /\ args \in [ group : TruncatedGroups, cut : 0..MaxCut ]
    /\ args.cut <= Len(args.group.data)
    /\ ret = None
    /\ ice = None
    /\ stream = LET whole == RawArchive(args.group.data, args.group.file_count)
                IN  SubSeq(whole, 1, Len(whole) - args.cut)
    /\ loaded = None

\* IceFile.read(stream) of an archive that lost its last args.cut bytes
ReadTruncated ==
    /\ pc = "start"
    /\ loaded' = IceFile_read(stream)
    /\ pc' = "read"
    /\ UNCHANGED << args, ret, ice, stream >>

NextTruncated == ReadTruncated

SpecTruncated == InitTruncated /\ [][NextTruncated]_vars

\* What the code raises when a fixed-size field cannot be read in full.
UnexpectedEOF == { "struct.error" }

\* C15: reading an archive whose input ends before the declared bytes of a
\* group or of a record are available fails with the end-of-input error; no
\* shortened payload is returned.
TruncatedReadFails ==
    (pc = "read" /\ args.cut > 0) => (~loaded.ok /\ loaded.err \in UnexpectedEOF)


(***************************************************************************)
(* The key schedule's second stage                                         *)
(***************************************************************************)
\* A 256-byte magic_numbers blob: every index _get_key computes is inside.
KeyBlob == [ i \in 1..256 |-> (37 * i + 11) % 256 ]

TempKeyBytes == { 0, 1, 6, 128, 255 }

InitCalcKeys ==
    /\ pc = "start"
    /\ args \in [ temp_key : [ 1..4 -> TempKeyBytes ] ]
    /\ ret = None
    /\ ice = None
    /\ stream = << >>
    /\ loaded = None

\* _calc_blowfish_keys(keys, temp_key): the value the loop starts from, the
\* number of times the loop body runs and the value returned.
CalcKeys ==
    /\ pc = "start"
    /\ LET temp_key1 == XorBytes(<< 92, 194, 2, 142 >>, args.temp_key)
       IN  ret' = [ temp_key1 |-> temp_key1,
                    count |-> loop_count(temp_key1),
                    result |-> calc_blowfish_keys(KeyBlob, args.temp_key) ]
    /\ pc' = "calc"
    /\ UNCHANGED << args, ice, stream, loaded >>

NextCalcKeys == CalcKeys

SpecCalcKeys == InitCalcKeys /\ [][NextCalcKeys]_vars

\* t mod 7 for a u32 t given as its 4 little-endian bytes
Mod7(le) == ((((((le[4] % 7) * 256 + le[3]) % 7) * 256 + le[2]) % 7) * 256 + le[1]) % 7

\* C16: for every unsigned 32-bit t the magic-number sequence of
\* _calc_blowfish_keys gives the loop count (t mod 7) + 2, so _get_key is
\* iterated between 2 and 8 times.
LoopCountIsModSeven ==
    pc = "calc" => /\ ret.count = Mod7(ret.temp_key1) + 2
                   /\ ret.count \in 2..8

\* the loop ran 8 times from a value with the top bit set
LoopCountIsModSevenWitness ==
    pc = "calc" /\ ret.temp_key1[4] >= 128 /\ ret.count = 8 /\ ret.result.ok

\* The value of the loop variable when the loop of _calc_blowfish_keys ends.
Looped == get_key_loop(KeyBlob, ret.temp_key1, ret.count).val

\* C17 as stated: the value returned is the loop's last value XOR 0x4352F5C2
\* XOR 0xCD503798.
FinalXorCD503798 ==
    pc = "calc" =>
        ret.result = Ok(XorBytes(XorBytes(Looped, << 194, 245, 82, 67 >>), << 152, 55, 80, 205 >>))

\* C17: the value returned is the loop's last value XOR 0x4352F5C2 XOR
\* 0xCD50379E, and 0xCD50379E is the unsigned 32-bit value of -0x32AFC862.
FinalXorCD50379E ==
    pc = "calc" =>
        /\ ret.result = Ok(XorBytes(XorBytes(Looped, << 194, 245, 82, 67 >>), << 158, 55, 80, 205 >>))
        /\ U32Bytes(-850380898) = << 158, 55, 80, 205 >>

\* a key was returned: the loop's last value XOR 0x8E02C25C, the two constants combined
FinalXorCD50379EWitness ==
    pc = "calc" /\ ret.result.ok /\ ret.result.val = XorBytes(Looped, << 92, 194, 2, 142 >>)


(***************************************************************************)
(* The stages of decrypt_group                                             *)
(***************************************************************************)
\* (key1, key2); version 3 passes an empty second key
DecryptKeys ==
    { << k1, k2 >> : k1 \in { << 1, 2, 3, 4 >>, << 255, 0, 128, 7 >> },
                     k2 \in { << 9, 8, 7, 6 >>, << >> } }

DecryptThresholds == { 0, 8, 16, MaxBfLen }

InitDecrypt ==
    /\ pc = "start"
    /\ args \in [ data : BfData, keys : DecryptKeys,
                  second_pass_threshold : DecryptThresholds, v3_decrypt : BOOLEAN ]
    /\ ret = None
    /\ ice = None
    /\ stream = << >>
    /\ loaded = None

\* decrypt_group(data, keys, second_pass_threshold, v3_decrypt)
DecryptGroup ==
    /\ pc = "start"
    /\ ret' = decrypt_group(args.data, args.keys, args.second_pass_threshold, args.v3_decrypt)
    /\ pc' = "decrypted"
    /\ UNCHANGED << args, ice, stream, loaded >>

NextDecrypt == DecryptGroup

SpecDecrypt == InitDecrypt /\ [][NextDecrypt]_vars

\* The stage f applied to the outcome r of the stage before it.
AndThen(r, f(_)) == IF r.ok THEN f(r.val) ELSE r

\* C18: decrypt_group applies floatage with k1 iff not v3, then Blowfish
\* with k1 always, then Blowfish with k2 iff not v3 and the length is at most
\* the threshold; for v3 the result is the single Blowfish pass under k1
\* whatever the threshold, and the v4 threshold is 0x19000.
DecryptStageOrder ==
    pc = "decrypted" =>
        LET k1 == args.keys[1]
            k2 == args.keys[2]
            floated == IF ~args.v3_decrypt THEN floatage_decrypt(args.data, k1) ELSE Ok(args.data)
            first == AndThen(floated, LAMBDA d : blowfish_decrypt(d, k1))
            second == AndThen(first, LAMBDA d :
                         IF ~args.v3_decrypt /\ Len(d) <= args.second_pass_threshold
                         THEN blowfish_decrypt(d, k2) ELSE Ok(d))
        IN  /\ ret = second
            /\ args.v3_decrypt => ret = blowfish_decrypt(args.data, k1)
            /\ SECOND_PASS_THRESHOLD = 102400

\* a version-4 payload of exactly the threshold's length went through the
\* three stages, and fewer stages do not give its result
DecryptStageOrderWitness ==
    /\ pc = "decrypted"
    /\ ~args.v3_decrypt
    /\ Len(args.data) = args.second_pass_threshold
    /\ Len(args.data) >= block_size
    /\ ret.ok
    /\ ret # blowfish_decrypt(floatage_decrypt(args.data, args.keys[1]).val, args.keys[1])
    /\ ret # blowfish_decrypt(args.data, args.keys[1])


(***************************************************************************)
(* IceFile.write given a filesystem path                                   *)
(***************************************************************************)
\* IceFile.write(path, ...): the isinstance branch opens the file, calls
\* write on it and leaves the with block, which closes the file; an
\* exception of the inner call leaves the function there.  Without one the
\* function goes on to self.header.write(stream) with stream still the path,
\* and a str or a Path has no write attribute.  events lists what was done
\* to the file and to the path argument, in order.
IceFile_write_path(self, compression, encrypt) ==
    Bind(IceFile_write(self, compression, encrypt), LAMBDA inner :
         [ self |-> inner.self,
           file |-> inner.out,
           result |-> IF ~inner.result.ok THEN inner.result ELSE Raise("AttributeError"),
           events |-> << "open", "write file", "close" >>
                         \o IF ~inner.result.ok THEN << >> ELSE << "write path" >> ])

\* ice.write("archive.ice", compression=..., encrypt=...)
WritePath ==
    /\ pc = "start"
    /\ \E mode \in CompressionModes, encrypt \in BOOLEAN :
          \E w \in { IceFile_write_path(ice, [ mode |-> mode, level |-> 3 ], encrypt) } :
              /\ args' = [ compression |-> [ mode |-> mode, level |-> 3 ], encrypt |-> encrypt,
                           group1_files |-> ice.group1_files, group2_files |-> ice.group2_files ]
              /\ ice' = w.self
              /\ stream' = w.file
              /\ ret' = [ result |-> w.result, events |-> w.events ]
    /\ pc' = "written path"
    /\ UNCHANGED loaded

NextWritePath == AddFile \/ WritePath

SpecWritePath == InitArchive /\ [][NextWritePath]_vars

\* C21: a version-4 write with encrypt=false to a path opens the file, writes
\* the header and the body to it once, closes it, and completes without error
\* and without a write attempt on the path argument.
WritePathCompletes ==
    (pc = "written path" /\ ice.header.version = 4 /\ ~args.encrypt) =>
        /\ ret.events = << "open", "write file", "close" >>
        /\ ret.result.ok


(***************************************************************************)
(* The extent of a NIFL record                                             *)
(***************************************************************************)
MaxNof0 == 24

\* A record whose body length is args.size and whose NOF0 chunk length is
\* args.nof0, laid out with NOF0 chunk length + 8 padded up to a multiple of
\* 0x10, followed by 32 bytes that belong to no record.
InitNiflExtent ==
    /\ pc = "start"
    /\ args \in [ size : { 16, 32, 48 }, nof0 : 0..MaxNof0 ]
    /\ ret = None
    /\ ice = None
    /\ stream = NiflRecord(args.size, args.nof0, args.size + pad_to_multiple(args.nof0 + 8, 16) + 16)
                   \o [ i \in 1..32 |-> 200 + i ]
    /\ loaded = None

\* split_group(header, data) with header.file_count = 1
NiflExtentSplit ==
    /\ pc = "start"
    /\ loaded' = split_group(GroupHeader(Len(stream), 0, 1, crc32(stream)), stream)
    /\ pc' = "split"
    /\ UNCHANGED << args, ret, ice, stream >>

NextNiflExtent == NiflExtentSplit

SpecNiflExtent == InitNiflExtent /\ [][NextNiflExtent]_vars

\* C22: the extent the splitter takes for a NIFL record is size + P + 0x10
\* with P = NOF0 chunk length + 8 padded up to a multiple of 0x10, P being
\* unchanged when NOF0 chunk length + 8 is already such a multiple.
NiflExtentPadded ==
    pc = "split" =>
        /\ loaded.ok
        /\ Len(loaded.val) = 1
        /\ Len(loaded.val[1].data) = args.size + pad_to_multiple(args.nof0 + 8, 16) + 16

====
